---- MODULE Spec2Model ----
(***************************************************************************)
(* Path resolution of the Vim extension's file commands: splitting a       *)
(* partial path, detecting the platform convention, joining against the    *)
(* active document's directory and translating between path strings and    *)
(* resource handles (Uri).                                                 *)
(*                                                                         *)
(* A string is a sequence of one-character strings; index i of the source  *)
(* (0-based) is index i+1 here.                                            *)
(***************************************************************************)
EXTENDS Integers, Sequences, FiniteSets, TLC

VARIABLES hostIsWindows, isRemoteSession, pc, args, ret

vars == <<hostIsWindows, isRemoteSession, pc, args, ret>>

(***************************************************************************)
(* Bounds of the model.                                                    *)
(***************************************************************************)
MaxLen == 3

(***************************************************************************)
(* Characters.                                                             *)
(***************************************************************************)
Slash == "/"

Backslash == "\\"

Colon == ":"

Dot == "."

Tilde == "~"

Undefined == "undefined"

LowerLetters == <<"a", "b", "c", "d", "e", "f", "g", "h", "i", "j", "k", "l", "m",
                  "n", "o", "p", "q", "r", "s", "t", "u", "v", "w", "x", "y", "z">>

UpperLetters == <<"A", "B", "C", "D", "E", "F", "G", "H", "I", "J", "K", "L", "M",
                  "N", "O", "P", "Q", "R", "S", "T", "U", "V", "W", "X", "Y", "Z">>

IsLower(ch) == \E i \in 1..26 : LowerLetters[i] = ch

IsUpper(ch) == \E i \in 1..26 : UpperLetters[i] = ch

IsLetter(ch) == IsLower(ch) \/ IsUpper(ch)

ToUpperCase(ch) ==
    IF IsLower(ch) THEN UpperLetters[CHOOSE i \in 1..26 : LowerLetters[i] = ch] ELSE ch

ToLowerCase(ch) ==
    IF IsUpper(ch) THEN LowerLetters[CHOOSE i \in 1..26 : UpperLetters[i] = ch] ELSE ch

(***************************************************************************)
(* String primitives of the language, on sequences of characters.          *)
(***************************************************************************)
Min(S) == CHOOSE x \in S : \A y \in S : x <= y

Max(S) == CHOOSE x \in S : \A y \in S : x >= y

\* s[i] / s.charCodeAt(i): the character at 0-based index i, or undefined
CharAt(s, i) == IF i >= 0 /\ i < Len(s) THEN s[i + 1] ELSE Undefined

\* s.indexOf(ch, from): -1 when absent
IndexOf(s, ch, from) ==
    LET I == {i \in from..(Len(s) - 1) : s[i + 1] = ch}
    IN  IF I = {} THEN -1 ELSE Min(I)

\* s.lastIndexOf(ch): -1 when absent
LastIndexOf(s, ch) ==
    LET I == {i \in 0..(Len(s) - 1) : s[i + 1] = ch}
    IN  IF I = {} THEN -1 ELSE Max(I)

\* s.substring(from, to) for 0 <= from, to
Substring(s, from, to) ==
    LET a == IF from > Len(s) THEN Len(s) ELSE from
        b == IF to > Len(s) THEN Len(s) ELSE to
    IN  IF a >= b THEN <<>> ELSE SubSeq(s, a + 1, b)

\* s.slice(from) / s.substr(from)
Slice(s, from) == Substring(s, from, Len(s))

\* s.replace(/a/g, b) for a one-character pattern
ReplaceAll(s, a, b) == [i \in 1..Len(s) |-> IF s[i] = a THEN b ELSE s[i]]

(***************************************************************************)
(* The path module of the runtime (interface PlatformPath): path.posix     *)
(* and path.win32.  A platform path is named by "posix" or "win32".        *)
(***************************************************************************)
Posix == "posix"

Win32 == "win32"

\* platformPath.sep
Sep(p) == IF p = Win32 THEN Backslash ELSE Slash

IsPathSeparator(p, ch) == IF p = Win32 THEN ch \in {Slash, Backslash} ELSE ch = Slash

\* normalizeString of the runtime's path module: resolves "." and ".."
\* segments of path; st = [res, lsl, lastSlash, dots, code]
RECURSIVE NormalizeLoop(_, _, _, _, _)
NormalizeLoop(path, allowAboveRoot, p, i, st) ==
    IF i > Len(path) THEN st.res
    ELSE IF i = Len(path) /\ IsPathSeparator(p, st.code) THEN st.res
    ELSE
        LET code == IF i < Len(path) THEN path[i + 1] ELSE Slash
            res  == st.res
            sep  == Sep(p)
            endsDotDot == /\ Len(res) >= 2
                          /\ st.lsl = 2
                          /\ res[Len(res)] = Dot
                          /\ res[Len(res) - 1] = Dot
            idx == LastIndexOf(res, sep)
            cut == Substring(res, 0, idx)
            seg == Substring(path, st.lastSlash + 1, i)
            next ==
                IF IsPathSeparator(p, code) THEN
                    IF st.lastSlash = i - 1 \/ st.dots = 1 THEN
                        [res |-> res, lsl |-> st.lsl, lastSlash |-> i, dots |-> 0, code |-> code]
                    ELSE IF st.dots = 2 THEN
                        IF ~endsDotDot /\ Len(res) > 2 THEN
                            IF idx = -1
                            THEN [res |-> <<>>, lsl |-> 0, lastSlash |-> i, dots |-> 0, code |-> code]
                            ELSE [res |-> cut,
                                  lsl |-> Len(cut) - 1 - LastIndexOf(cut, sep),
                                  lastSlash |-> i, dots |-> 0, code |-> code]
                        ELSE IF ~endsDotDot /\ Len(res) # 0 THEN
                            [res |-> <<>>, lsl |-> 0, lastSlash |-> i, dots |-> 0, code |-> code]
                        ELSE IF allowAboveRoot THEN
                            [res |-> IF Len(res) > 0 THEN res \o <<sep, Dot, Dot>> ELSE <<Dot, Dot>>,
                             lsl |-> 2, lastSlash |-> i, dots |-> 0, code |-> code]
                        ELSE
                            [res |-> res, lsl |-> st.lsl, lastSlash |-> i, dots |-> 0, code |-> code]
                    ELSE
                        [res |-> IF Len(res) > 0 THEN res \o <<sep>> \o seg ELSE seg,
                         lsl |-> i - st.lastSlash - 1,
                         lastSlash |-> i, dots |-> 0, code |-> code]
                ELSE IF code = Dot /\ st.dots # -1 THEN
                    [st EXCEPT !.dots = st.dots + 1, !.code = code]
                ELSE
                    [st EXCEPT !.dots = -1, !.code = code]
        IN  NormalizeLoop(path, allowAboveRoot, p, i + 1, next)

NormalizeString(path, allowAboveRoot, p) ==
    NormalizeLoop(path, allowAboveRoot, p, 0,
                  [res |-> <<>>, lsl |-> 0, lastSlash |-> -1, dots |-> 0, code |-> Undefined])

\* path.posix.normalize
PosixNormalize(path) ==
    IF Len(path) = 0 THEN <<Dot>>
    ELSE
        LET isAbsolute == path[1] = Slash
            trailingSeparator == path[Len(path)] = Slash
            n == NormalizeString(path, ~isAbsolute, Posix)
        IN  IF Len(n) = 0 THEN
                IF isAbsolute THEN <<Slash>>
                ELSE IF trailingSeparator THEN <<Dot, Slash>> ELSE <<Dot>>
            ELSE
                LET t == IF trailingSeparator THEN n \o <<Slash>> ELSE n
                IN  IF isAbsolute THEN <<Slash>> \o t ELSE t

\* the first index >= j at which the separator test differs from wantSep
RECURSIVE SkipWhile(_, _, _)
SkipWhile(path, j, wantSep) ==
    IF j < Len(path) /\ (IsPathSeparator(Win32, path[j + 1]) = wantSep)
    THEN SkipWhile(path, j + 1, wantSep)
    ELSE j

\* path.win32.normalize
Win32Normalize(path) ==
    LET len == Len(path)
        sepAt(i) == IsPathSeparator(Win32, CharAt(path, i))
        \* the UNC root scan
        j1 == SkipWhile(path, 2, FALSE)
        j2 == SkipWhile(path, j1, TRUE)
        j3 == SkipWhile(path, j2, FALSE)
        firstPart == Substring(path, 2, j1)
        uncHost  == j1 < len /\ j1 # 2
        uncShare == uncHost /\ j2 < len /\ j2 # j1
        uncOnly  == uncShare /\ j3 = len
        uncRoot  == uncShare /\ j3 # len /\ j3 # j2
        isDrive  == ~sepAt(0) /\ IsLetter(CharAt(path, 0)) /\ CharAt(path, 1) = Colon
        hasDevice == (sepAt(0) /\ sepAt(1) /\ uncRoot) \/ isDrive
        device ==
            IF isDrive THEN Substring(path, 0, 2)
            ELSE <<Backslash, Backslash>> \o firstPart \o <<Backslash>> \o Substring(path, j2, j3)
        isAbsolute == sepAt(0) \/ (isDrive /\ len > 2 /\ sepAt(2))
        rootEnd ==
            IF sepAt(0) THEN
                IF sepAt(1) THEN (IF uncRoot THEN j3 ELSE 0) ELSE 1
            ELSE IF isDrive THEN (IF len > 2 /\ sepAt(2) THEN 3 ELSE 2)
            ELSE 0
        tail0 == IF rootEnd < len
                 THEN NormalizeString(Slice(path, rootEnd), ~isAbsolute, Win32)
                 ELSE <<>>
        tail1 == IF Len(tail0) = 0 /\ ~isAbsolute THEN <<Dot>> ELSE tail0
        tail  == IF Len(tail1) > 0 /\ sepAt(len - 1) THEN tail1 \o <<Backslash>> ELSE tail1
    IN  IF len = 0 THEN <<Dot>>
        ELSE IF len = 1 THEN (IF path[1] = Slash THEN <<Backslash>> ELSE path)
        ELSE IF sepAt(0) /\ sepAt(1) /\ uncOnly THEN
            <<Backslash, Backslash>> \o firstPart \o <<Backslash>> \o Slice(path, j2) \o <<Backslash>>
        ELSE IF ~hasDevice THEN
            (IF isAbsolute THEN <<Backslash>> \o tail ELSE tail)
        ELSE
            (IF isAbsolute THEN device \o <<Backslash>> \o tail ELSE device \o tail)

\* path.posix.join(a, b)
PosixJoin(a, b) ==
    LET joined == IF Len(a) = 0 THEN b
                  ELSE IF Len(b) = 0 THEN a
                  ELSE a \o <<Slash>> \o b
    IN  IF Len(joined) = 0 THEN <<Dot>> ELSE PosixNormalize(joined)

\* path.win32.join(a, b)
Win32Join(a, b) ==
    LET joined0 == IF Len(a) = 0 THEN b
                   ELSE IF Len(b) = 0 THEN a
                   ELSE a \o <<Backslash>> \o b
        firstPart == IF Len(a) = 0 THEN b ELSE a
        sepAt(i) == IsPathSeparator(Win32, CharAt(firstPart, i))
        isUncFirst == sepAt(0) /\ Len(firstPart) > 2 /\ sepAt(1) /\ ~sepAt(2)
        slashCount0 ==
            IF ~sepAt(0) THEN 0
            ELSE IF ~(Len(firstPart) > 1 /\ sepAt(1)) THEN 1
            ELSE IF Len(firstPart) > 2 /\ sepAt(2) THEN 3
            ELSE 2
        slashCount == SkipWhile(joined0, slashCount0, TRUE)
        joined == IF ~isUncFirst /\ slashCount >= 2
                  THEN <<Backslash>> \o Slice(joined0, slashCount)
                  ELSE joined0
    IN  IF Len(joined0) = 0 THEN <<Dot>> ELSE Win32Normalize(joined)

\* platformPath.join(a, b)
Join(p, a, b) == IF p = Win32 THEN Win32Join(a, b) ELSE PosixJoin(a, b)

\* platformPath.isAbsolute(path)
IsAbsolute(p, path) ==
    IF p = Win32
    THEN /\ Len(path) > 0
         /\ \/ IsPathSeparator(Win32, path[1])
            \/ /\ Len(path) > 2
               /\ IsLetter(path[1])
               /\ path[2] = Colon
               /\ IsPathSeparator(Win32, path[3])
    ELSE Len(path) > 0 /\ path[1] = Slash

\* the end of platformPath.dirname's scan: the 0-based index of the last
\* separator at offset or later that a character of a name follows, or -1
DirnameEnd(p, path, offset) ==
    LET Ends == {i \in offset..(Len(path) - 1) :
                    /\ IsPathSeparator(p, path[i + 1])
                    /\ \E j \in (i + 1)..(Len(path) - 1) : ~IsPathSeparator(p, path[j + 1])}
    IN  IF Ends = {} THEN -1 ELSE Max(Ends)

\* path.posix.dirname(path)
PosixDirname(path) ==
    LET hasRoot == CharAt(path, 0) = Slash
        end == DirnameEnd(Posix, path, 1)
    IN  IF Len(path) = 0 THEN <<Dot>>
        ELSE IF end = -1 THEN (IF hasRoot THEN <<Slash>> ELSE <<Dot>>)
        ELSE IF hasRoot /\ end = 1 THEN <<Slash, Slash>>
        ELSE Substring(path, 0, end)

\* path.win32.dirname(path)
Win32Dirname(path) ==
    LET len == Len(path)
        sepAt(i) == IsPathSeparator(Win32, CharAt(path, i))
        j1 == SkipWhile(path, 2, FALSE)
        j2 == SkipWhile(path, j1, TRUE)
        j3 == SkipWhile(path, j2, FALSE)
        uncShare == j1 < len /\ j1 # 2 /\ j2 < len /\ j2 # j1
        uncOnly  == sepAt(0) /\ sepAt(1) /\ uncShare /\ j3 = len
        isDrive  == ~sepAt(0) /\ IsLetter(CharAt(path, 0)) /\ CharAt(path, 1) = Colon
        rootEnd ==
            IF sepAt(0) THEN
                IF sepAt(1) /\ uncShare /\ j3 # len /\ j3 # j2 THEN j3 + 1 ELSE 1
            ELSE IF isDrive THEN (IF len > 2 /\ sepAt(2) THEN 3 ELSE 2)
            ELSE -1
        offset == IF rootEnd = -1 THEN 0 ELSE rootEnd
        end == DirnameEnd(Win32, path, offset)
    IN  IF len = 0 THEN <<Dot>>
        ELSE IF len = 1 THEN (IF sepAt(0) THEN path ELSE <<Dot>>)
        ELSE IF uncOnly THEN path
        ELSE IF end = -1 THEN (IF rootEnd = -1 THEN <<Dot>> ELSE Substring(path, 0, rootEnd))
        ELSE Substring(path, 0, end)

\* platformPath.dirname(path)
Dirname(p, path) == IF p = Win32 THEN Win32Dirname(path) ELSE PosixDirname(path)

\* platformPath.extname(path): from the last dot of the last component on,
\* empty when the component has no dot, begins with its only dot or is ".."
Extname(p, path) ==
    LET start == IF p = Win32 /\ Len(path) >= 2 /\ path[2] = Colon /\ IsLetter(path[1])
                 THEN 2 ELSE 0
        Names == {i \in start..(Len(path) - 1) : ~IsPathSeparator(p, path[i + 1])}
        end == IF Names = {} THEN -1 ELSE Max(Names) + 1
        Seps == {i \in start..(end - 1) : IsPathSeparator(p, path[i + 1])}
        startPart == IF Seps = {} THEN start ELSE Max(Seps) + 1
        Dots == {i \in startPart..(end - 1) : path[i + 1] = Dot}
        startDot == IF Dots = {} THEN -1 ELSE Max(Dots)
        preDotState == IF startDot = startPart THEN 0
                       ELSE IF CharAt(path, startPart) = Dot THEN 1
                       ELSE -1
    IN  IF \/ startDot = -1
           \/ end = -1
           \/ preDotState = 0
           \/ (preDotState = 1 /\ startDot = end - 1 /\ startDot = startPart + 1)
        THEN <<>>
        ELSE Substring(path, startDot, end)

(***************************************************************************)
(* The host: the path module is path.win32 on a Windows host and           *)
(* path.posix elsewhere; os.homedir() is the user's home directory.        *)
(***************************************************************************)
HostPath(hostWin) == IF hostWin THEN Win32 ELSE Posix

HomeDirectory(hostWin) ==
    IF hostWin THEN <<"C", Colon, Backslash, "h">> ELSE <<Slash, "h">>

\* untildify(pathWithTilde): pathWithTilde.replace(/^~(?=$|\/|\\)/, homeDirectory)
HasHomeMarker(s) ==
    /\ Len(s) > 0
    /\ s[1] = Tilde
    /\ (Len(s) = 1 \/ s[2] \in {Slash, Backslash})

Untildify(s, hostWin) ==
    IF HasHomeMarker(s) THEN HomeDirectory(hostWin) \o Slice(s, 1) ELSE s

(***************************************************************************)
(* Resource handles (vscode.Uri): scheme, authority, path.                 *)
(***************************************************************************)
SchemeFile == "file"

SchemeUntitled == "untitled"

SchemeVscodeRemote == "vscode-remote"

MkUri(scheme, authority, path) ==
    [kind |-> "uri", scheme |-> scheme, authority |-> authority, path |-> path]

Null == [kind |-> "null"]

Thrown == [kind |-> "throw"]

IsUri(u) == u.kind = "uri"

\* new Uri(scheme, authority, path): reference resolution of the path for the
\* file scheme, then validation of the path against the authority
NewUri(scheme, authority, path) ==
    LET resolved ==
            IF scheme = SchemeFile
            THEN IF Len(path) = 0 THEN <<Slash>>
                 ELSE IF path[1] # Slash THEN <<Slash>> \o path
                 ELSE path
            ELSE path
        invalid ==
            /\ Len(resolved) > 0
            /\ IF Len(authority) > 0
               THEN resolved[1] # Slash
               ELSE CharAt(resolved, 0) = Slash /\ CharAt(resolved, 1) = Slash
    IN  IF invalid THEN Thrown ELSE MkUri(scheme, authority, resolved)

\* vscode.Uri.file(path)
UriFile(path, hostWin) ==
    LET fp  == IF hostWin THEN ReplaceAll(path, Backslash, Slash) ELSE path
        unc == CharAt(fp, 0) = Slash /\ CharAt(fp, 1) = Slash
        idx == IndexOf(fp, Slash, 2)
        authority == IF ~unc THEN <<>>
                     ELSE IF idx = -1 THEN Slice(fp, 2) ELSE Substring(fp, 2, idx)
        rest == IF ~unc THEN fp
                ELSE IF idx = -1 THEN <<Slash>> ELSE Slice(fp, idx)
    IN  NewUri(SchemeFile, authority, rest)

\* uri.fsPath as vscode computes it: drive letter lowercased, and slashes
\* turned into backslashes on a Windows host
FsPath(uri, hostWin) ==
    LET value ==
            IF Len(uri.authority) > 0 /\ Len(uri.path) > 1 /\ uri.scheme = SchemeFile
            THEN <<Slash, Slash>> \o uri.authority \o uri.path
            ELSE IF /\ CharAt(uri.path, 0) = Slash
                    /\ IsLetter(CharAt(uri.path, 1))
                    /\ CharAt(uri.path, 2) = Colon
            THEN <<ToLowerCase(uri.path[2])>> \o Slice(uri.path, 2)
            ELSE uri.path
    IN  IF hostWin THEN ReplaceAll(value, Slash, Backslash) ELSE value

(***************************************************************************)
(* util/path.ts                                                            *)
(***************************************************************************)
\* separatePath without the special case for an incomplete UNC reference
separatePath_NoUncCase(searchPath, sep) ==
    LET baseNameIndex == LastIndexOf(searchPath, sep) + 1
    IN  <<Substring(searchPath, 0, baseNameIndex), Slice(searchPath, baseNameIndex)>>

\* separatePath with the separator left out of the directory part
separatePath_DropsSeparator(searchPath, sep) ==
    IF /\ sep = Backslash
       /\ CharAt(searchPath, 0) = sep
       /\ CharAt(searchPath, 1) = sep
       /\ IndexOf(searchPath, sep, 2) = -1
    THEN <<searchPath, <<>>>>
    ELSE
        LET baseNameIndex == LastIndexOf(searchPath, sep) + 1
        IN  <<Substring(searchPath, 0, baseNameIndex - 1), Slice(searchPath, baseNameIndex)>>

separatePath(searchPath, sep) ==
    IF /\ sep = Backslash
       /\ CharAt(searchPath, 0) = sep
       /\ CharAt(searchPath, 1) = sep
       /\ IndexOf(searchPath, sep, 2) = -1
    THEN <<searchPath, <<>>>>
    ELSE
        LET baseNameIndex == LastIndexOf(searchPath, sep) + 1
        IN  <<Substring(searchPath, 0, baseNameIndex), Slice(searchPath, baseNameIndex)>>

hasDriveLetter(fsPath, offset) ==
    /\ Len(fsPath) >= 2 + offset
    /\ CharAt(fsPath, 1 + offset) = Colon
    /\ IsLetter(CharAt(fsPath, offset))

isPathSeparator(ch) == ch = Slash \/ ch = Backslash

isUNC(fsPath) ==
    /\ Len(fsPath) >= 3
    /\ isPathSeparator(CharAt(fsPath, 0))
    /\ isPathSeparator(CharAt(fsPath, 1))
    /\ ~isPathSeparator(CharAt(fsPath, 2))

\* uriToFsPath with the drive letter lowercased, as uri.fsPath does
uriToFsPath_LowerDrive(uri) ==
    IF Len(uri.authority) > 0 /\ Len(uri.path) > 1 /\ uri.scheme = SchemeFile
    THEN <<Slash, Slash>> \o uri.authority \o uri.path
    ELSE IF CharAt(uri.path, 0) = Slash /\ hasDriveLetter(uri.path, 1)
    THEN <<ToLowerCase(uri.path[2])>> \o Slice(uri.path, 2)
    ELSE uri.path

uriToFsPath(uri) ==
    IF Len(uri.authority) > 0 /\ Len(uri.path) > 1 /\ uri.scheme = SchemeFile
    THEN <<Slash, Slash>> \o uri.authority \o uri.path
    ELSE IF CharAt(uri.path, 0) = Slash /\ hasDriveLetter(uri.path, 1)
    THEN <<ToUpperCase(uri.path[2])>> \o Slice(uri.path, 2)
    ELSE uri.path

getPlatformPath(uri) ==
    LET fsPath == uriToFsPath(uri)
    IN  IF hasDriveLetter(fsPath, 0) \/ isUNC(fsPath) THEN Win32 ELSE Posix

\* createFileUri that leaves the path as given, without the leading slash
createFileUri_NoLeadingSlash(filePath, baseUri, platformPath) ==
    LET scheme == IF baseUri.scheme = SchemeUntitled THEN SchemeFile ELSE baseUri.scheme
        fp0  == IF Sep(platformPath) = Backslash
                THEN ReplaceAll(filePath, Backslash, Slash)
                ELSE filePath
        unc  == CharAt(fp0, 0) = Slash /\ CharAt(fp0, 1) = Slash
        idx  == IndexOf(fp0, Slash, 2)
        authority == IF ~unc THEN baseUri.authority
                     ELSE IF idx = -1 THEN Slice(fp0, 2) ELSE Substring(fp0, 2, idx)
        fp1  == IF ~unc THEN fp0
                ELSE IF idx = -1 THEN <<Slash>> ELSE Slice(fp0, idx)
    IN  NewUri(scheme, authority, fp1)

createFileUri(filePath, baseUri, platformPath) ==
    LET scheme == IF baseUri.scheme = SchemeUntitled THEN SchemeFile ELSE baseUri.scheme
        fp0  == IF Sep(platformPath) = Backslash
                THEN ReplaceAll(filePath, Backslash, Slash)
                ELSE filePath
        unc  == CharAt(fp0, 0) = Slash /\ CharAt(fp0, 1) = Slash
        idx  == IndexOf(fp0, Slash, 2)
        authority == IF ~unc THEN baseUri.authority
                     ELSE IF idx = -1 THEN Slice(fp0, 2) ELSE Substring(fp0, 2, idx)
        fp1  == IF ~unc THEN fp0
                ELSE IF idx = -1 THEN <<Slash>> ELSE Slice(fp0, idx)
        fp2  == IF Len(fp1) > 0 /\ fp1[1] # Slash THEN <<Slash>> \o fp1 ELSE fp1
    IN  NewUri(scheme, authority, fp2)

\* joinPath(uri, pathFragment)
joinPath(uri, pathFragment) ==
    LET platformPath == getPlatformPath(uri)
        newPath == Join(platformPath, uriToFsPath(uri), pathFragment)
    IN  createFileUri(newPath, uri, platformPath)

\* the active document itself taken for its directory
CurrentDirectory_Resource(currentUri, isWindows, hostWin) ==
    IF isWindows THEN FsPath(currentUri, hostWin) ELSE currentUri.path

\* the directory of the active document: separatePath(isWindows ? fsPath : path, p.sep)[0]
CurrentDirectory(currentUri, isWindows, hostWin) ==
    separatePath(IF isWindows THEN FsPath(currentUri, hostWin) ELSE currentUri.path,
                 IF isWindows THEN Backslash ELSE Slash)[1]

\* PathDetailsFrom with fullPath joined from the input's directory part
PathDetailsFrom_JoinDirName(expanded, updatedPartialPath, isWindows, currentUri, hostWin) ==
    LET p == IF isWindows THEN Win32 ELSE Posix
        parts == separatePath(expanded, Sep(p))
        dirName == parts[1]
        baseName == parts[2]
        fullDirPath ==
            IF IsAbsolute(p, dirName) THEN dirName
            ELSE Join(p, separatePath(IF isWindows THEN FsPath(currentUri, hostWin)
                                      ELSE currentUri.path, Sep(p))[1], dirName)
    IN  [fullPath |-> Join(p, dirName, baseName),
         fullDirPath |-> fullDirPath,
         dirName |-> dirName,
         baseName |-> baseName,
         partialPath |-> updatedPartialPath,
         path |-> p]

\* the split, the join against the active document's directory and the
\* result record, as getPathDetails and getFullPath both compute them
PathDetailsFrom(expanded, updatedPartialPath, isWindows, currentUri, hostWin) ==
    LET p == IF isWindows THEN Win32 ELSE Posix
        parts == separatePath(expanded, Sep(p))
        dirName == parts[1]
        baseName == parts[2]
        fullDirPath ==
            IF IsAbsolute(p, dirName) THEN dirName
            ELSE Join(p, CurrentDirectory(currentUri, isWindows, hostWin), dirName)
    IN  [fullPath |-> Join(p, fullDirPath, baseName),
         fullDirPath |-> fullDirPath,
         dirName |-> dirName,
         baseName |-> baseName,
         partialPath |-> updatedPartialPath,
         path |-> p]

\* the detection of getPathDetails without the test of the scheme
getPathDetails_isWindows_AnyScheme(currentUri, isRemote, hostWin) ==
    IF currentUri.scheme = SchemeUntitled
    THEN HostPath(hostWin) = Win32 /\ ~isRemote
    ELSE CharAt(FsPath(currentUri, hostWin), 0) # Slash

\* the detection of getPathDetails without the test of the remote flag
getPathDetails_isWindows_IgnoreRemote(currentUri, isRemote, hostWin) ==
    IF currentUri.scheme = SchemeUntitled
    THEN HostPath(hostWin) = Win32
    ELSE currentUri.scheme = SchemeFile /\ CharAt(FsPath(currentUri, hostWin), 0) # Slash

\* the convention detection of getPathDetails
getPathDetails_isWindows(currentUri, isRemote, hostWin) ==
    IF currentUri.scheme = SchemeUntitled
    THEN HostPath(hostWin) = Win32 /\ ~isRemote
    ELSE currentUri.scheme = SchemeFile /\ CharAt(FsPath(currentUri, hostWin), 0) # Slash

\* the home expansion of getPathDetails done in every context
getPathDetails_untildify_Always(partialPath, currentUri, isRemote, hostWin) ==
    Untildify(partialPath, hostWin)

\* the home expansion of getPathDetails
getPathDetails_untildify(partialPath, currentUri, isRemote, hostWin) ==
    IF \/ currentUri.scheme = SchemeFile
       \/ (currentUri.scheme = SchemeUntitled /\ ~isRemote)
    THEN Untildify(partialPath, hostWin)
    ELSE partialPath

\* getPathDetails(partialPath, currentUri, isRemote) on a host
getPathDetails(partialPath, currentUri, isRemote, hostWin) ==
    LET isWindows == getPathDetails_isWindows(currentUri, isRemote, hostWin)
        updatedPartialPath ==
            IF isWindows THEN ReplaceAll(partialPath, Slash, Backslash) ELSE partialPath
        expanded == getPathDetails_untildify(updatedPartialPath, currentUri, isRemote, hostWin)
    IN  PathDetailsFrom(expanded, updatedPartialPath, isWindows, currentUri, hostWin)

\* the convention detection of getFullPath
getFullPath_isWindows(currentUri, hostWin) ==
    IF currentUri.scheme = SchemeUntitled
    THEN HostPath(hostWin) # Posix
    ELSE currentUri.scheme = SchemeFile /\ CharAt(FsPath(currentUri, hostWin), 0) # Slash

\* getFullPath(filePathInCmd), with the active document's uri made explicit
getFullPath(filePathInCmd, currentUri, hostWin) ==
    LET isWindows == getFullPath_isWindows(currentUri, hostWin)
        updatedFilePathInCmd ==
            IF isWindows THEN ReplaceAll(filePathInCmd, Slash, Backslash) ELSE filePathInCmd
        expanded ==
            IF currentUri.scheme = SchemeFile \/ currentUri.scheme = SchemeUntitled
            THEN Untildify(updatedFilePathInCmd, hostWin)
            ELSE updatedFilePathInCmd
    IN  PathDetailsFrom(expanded, updatedFilePathInCmd, isWindows, currentUri, hostWin)

\* /^(\\\\.+\\)|([a-zA-Z]:\\)/.test(absolutePath)
WindowsPathPattern(absolutePath) ==
    \/ /\ CharAt(absolutePath, 0) = Backslash
       /\ CharAt(absolutePath, 1) = Backslash
       /\ IndexOf(absolutePath, Backslash, 3) # -1
    \/ \E i \in 0..(Len(absolutePath) - 3) :
           /\ IsLetter(CharAt(absolutePath, i))
           /\ CharAt(absolutePath, i + 1) = Colon
           /\ CharAt(absolutePath, i + 2) = Backslash

\* currentUri.with({scheme, path})
UriWith(uri, scheme, authority, path) == NewUri(scheme, authority, path)

\* resolveUri upgrading the unsaved-buffer scheme whatever the remote flag
resolveUri_AlwaysUpgrade(absolutePath, sep, currentUri, isRemote, hostWin) ==
    LET isWindows == sep = Backslash
    IN  IF isWindows /\ ~WindowsPathPattern(absolutePath) THEN Null
        ELSE IF ~isWindows /\ CharAt(absolutePath, 0) # sep THEN Null
        ELSE IF isWindows THEN UriFile(absolutePath, hostWin)
        ELSE UriWith(currentUri,
                     IF currentUri.scheme = SchemeUntitled THEN SchemeFile ELSE currentUri.scheme,
                     currentUri.authority,
                     absolutePath)

\* resolveUri(absolutePath, sep, currentUri, isRemote) on a host
resolveUri(absolutePath, sep, currentUri, isRemote, hostWin) ==
    LET isWindows == sep = Backslash
        isLocalUntitled == ~isRemote /\ currentUri.scheme = SchemeUntitled
    IN  IF isWindows /\ ~WindowsPathPattern(absolutePath) THEN Null
        ELSE IF ~isWindows /\ CharAt(absolutePath, 0) # sep THEN Null
        ELSE IF isWindows THEN UriFile(absolutePath, hostWin)
        ELSE UriWith(currentUri,
                     IF isLocalUntitled THEN SchemeFile ELSE currentUri.scheme,
                     currentUri.authority,
                     absolutePath)

\* getUriPath(currentUri, absolutePath, sep) on a host
getUriPath(currentUri, absolutePath, sep, hostWin) ==
    LET isWindows == sep = Backslash
    IN  IF isWindows /\ ~WindowsPathPattern(absolutePath) THEN Null
        ELSE IF ~isWindows /\ CharAt(absolutePath, 0) # sep THEN Null
        ELSE IF isWindows THEN UriFile(absolutePath, hostWin)
        ELSE UriWith(currentUri,
                     IF currentUri.scheme = SchemeUntitled THEN SchemeFile ELSE currentUri.scheme,
                     currentUri.authority,
                     absolutePath)

\* the detection of resolveDirectoryPath using the host's platform throughout
resolveDirectoryPath_platformPath_Host(baseUri, hostWin) == HostPath(hostWin)

\* the convention detection of resolveDirectoryPath
resolveDirectoryPath_platformPath(baseUri, hostWin) ==
    IF baseUri.scheme = SchemeVscodeRemote
    THEN getPlatformPath(baseUri)
    ELSE HostPath(hostWin)

\* the directory of resolveDirectoryPath joined onto the base even when it is absolute
resolveDirectoryPath_joinsDirectory_Always(baseUri, dirName, platformPath) ==
    baseUri.scheme = SchemeFile \/ baseUri.scheme = SchemeVscodeRemote

\* step 4 of resolveDirectoryPath: whether the directory part is joined onto
\* the path of the base before its handle is made
resolveDirectoryPath_joinsDirectory(baseUri, dirName, platformPath) ==
    /\ baseUri.scheme = SchemeFile \/ baseUri.scheme = SchemeVscodeRemote
    /\ ~IsAbsolute(platformPath, dirName)

\* resolveDirectoryPath(baseUri, partialPath) on a host
resolveDirectoryPath(baseUri, partialPath, hostWin) ==
    LET platformPath == resolveDirectoryPath_platformPath(baseUri, hostWin)
        normalizedPartialPath ==
            IF Sep(platformPath) = Backslash
            THEN ReplaceAll(partialPath, Slash, Backslash)
            ELSE partialPath
        expanded ==
            IF baseUri.scheme = SchemeFile \/ baseUri.scheme = SchemeUntitled
            THEN Untildify(normalizedPartialPath, hostWin)
            ELSE normalizedPartialPath
        parts == separatePath(expanded, Sep(platformPath))
        dirName == parts[1]
        baseName == parts[2]
        directoryUri ==
            IF baseUri.scheme = SchemeFile \/ baseUri.scheme = SchemeVscodeRemote
            THEN IF IsAbsolute(platformPath, dirName)
                 THEN createFileUri(dirName, baseUri, platformPath)
                 ELSE createFileUri(Join(platformPath, uriToFsPath(baseUri), dirName),
                                    baseUri, platformPath)
            ELSE createFileUri(dirName, baseUri, platformPath)
    IN  IF ~IsUri(directoryUri) THEN Thrown
        ELSE
            LET filePath == Join(platformPath, uriToFsPath(directoryUri), baseName)
                fileUri == createFileUri(filePath, baseUri, platformPath)
            IN  IF ~IsUri(fileUri) THEN Thrown
                ELSE [kind |-> "resolved",
                      fileUri |-> fileUri,
                      directoryUri |-> directoryUri,
                      basename |-> baseName,
                      dirname |-> dirName,
                      partialPath |-> normalizedPartialPath,
                      platformPath |-> platformPath]

(***************************************************************************)
(* readDirectory.  The storage backend (vscode.workspace.fs.readDirectory) *)
(* answers a read with the children of the directory, each a name and a    *)
(* file type, or rejects it; which of the two is the environment's choice. *)
(***************************************************************************)
FileTypes == {"File", "Directory", "SymbolicLink"}

\* the backend's answer: the children in listing order
Listed(entries) == [kind |-> "listed", entries |-> entries, error |-> "none"]

\* the backend's answer: the read is rejected with an error
Rejected(error) == [kind |-> "rejected", entries |-> <<>>, error |-> error]

\* readDirectory that puts the pseudo-entries before the children
readDirectory_PseudoFirst(directoryUri, addCurrentAndUp, platformPath, backend) ==
    LET p   == IF platformPath = Undefined THEN getPlatformPath(directoryUri) ELSE platformPath
        sep == Sep(p)
    IN  IF backend.kind = "rejected"
        THEN <<>>
        ELSE (IF addCurrentAndUp THEN <<<<Dot, sep>>, <<Dot, Dot, sep>>>> ELSE <<>>)
             \o [i \in 1..Len(backend.entries) |->
                   backend.entries[i].name
                      \o (IF backend.entries[i].type = "Directory" THEN <<sep>> ELSE <<>>)]

\* readDirectory that still adds the pseudo-entries when the read is rejected
readDirectory_PseudoOnFailure(directoryUri, addCurrentAndUp, platformPath, backend) ==
    LET p   == IF platformPath = Undefined THEN getPlatformPath(directoryUri) ELSE platformPath
        sep == Sep(p)
    IN  [i \in 1..Len(backend.entries) |->
            backend.entries[i].name
               \o (IF backend.entries[i].type = "Directory" THEN <<sep>> ELSE <<>>)]
        \o (IF addCurrentAndUp THEN <<<<Dot, sep>>, <<Dot, Dot, sep>>>> ELSE <<>>)

\* readDirectory(directoryUri, addCurrentAndUp, platformPath?): the catch
\* clause turns every rejection into the empty list
readDirectory(directoryUri, addCurrentAndUp, platformPath, backend) ==
    LET p   == IF platformPath = Undefined THEN getPlatformPath(directoryUri) ELSE platformPath
        sep == Sep(p)
    IN  IF backend.kind = "rejected"
        THEN <<>>
        ELSE [i \in 1..Len(backend.entries) |->
                 backend.entries[i].name
                    \o (IF backend.entries[i].type = "Directory" THEN <<sep>> ELSE <<>>)]
             \o (IF addCurrentAndUp THEN <<<<Dot, sep>>, <<Dot, Dot, sep>>>> ELSE <<>>)

\* the older readDirectory(currentUri, absolutePath, sep, addCurrentAndUp):
\* it translates the path itself and returns pairs of a name and a file type
readDirectoryOfPath(currentUri, absolutePath, sep, addCurrentAndUp, backend, hostWin) ==
    LET directoryUri == getUriPath(currentUri, absolutePath, sep, hostWin)
    IN  IF directoryUri = Null \/ directoryUri = Thrown \/ backend.kind = "rejected"
        THEN <<>>
        ELSE [i \in 1..Len(backend.entries) |->
                 <<backend.entries[i].name
                      \o (IF backend.entries[i].type = "Directory" THEN <<sep>> ELSE <<>>),
                   backend.entries[i].type>>]
             \o (IF addCurrentAndUp
                 THEN <<<<<<Dot, sep>>, "Directory">>, <<<<Dot, Dot, sep>>, "Directory">>>>
                 ELSE <<>>)

(***************************************************************************)
(* cmd_line/commands/file.ts: FileCommand.execute.  A run is the sequence  *)
(* of the editor commands, storage accesses and log entries it performs;   *)
(* the environment answers the existence checks and the open dialog.       *)
(***************************************************************************)
\* _arguments.name === undefined
NoName == <<Undefined>>

NewWindowVerticalSplit == "NewWindowVerticalSplit"

NewWindowHorizontalSplit == "NewWindowHorizontalSplit"

FilePrefix == <<"f", "i", "l", "e", Colon, Slash, Slash>>

\* name.replace(/^file:\/\//, '')
StripFilePrefix(name) ==
    IF Len(name) >= Len(FilePrefix) /\ SubSeq(name, 1, Len(FilePrefix)) = FilePrefix
    THEN Slice(name, Len(FilePrefix))
    ELSE name

\* the split requested by _arguments.position, done before anything else
SplitEditor(a) ==
    (IF a.position = NewWindowVerticalSplit
     THEN <<"workbench.action.splitEditorRight">> ELSE <<>>)
    \o (IF a.position = NewWindowHorizontalSplit
        THEN <<"workbench.action.splitEditorDown">> ELSE <<>>)

\* hidePreviousEditor()
HidePreviousEditor(split) ==
    IF split
    THEN <<"workbench.action.previousEditor", "workbench.action.closeActiveEditor">>
    ELSE <<>>

\* the end of execute: open and show the document, reveal the line, hide
OpenDocument(a, split) ==
    <<"workspace.openTextDocument", "window.showTextDocument">>
    \o (IF a.lineNumber # 0 THEN <<"revealRange">> ELSE <<>>)
    \o HidePreviousEditor(split)

\* FileCommand.execute(): what the run performs, in order
execute(a, editorFileUri, env, hostWin) ==
    LET p == HostPath(hostWin)
        editorFilePath == FsPath(editorFileUri, hostWin)
        split == a.position \in {NewWindowVerticalSplit, NewWindowHorizontalSplit}
        name1 == IF a.name # <<>> /\ editorFileUri.scheme = SchemeFile
                 THEN Untildify(a.name, hostWin) ELSE a.name
        name2 == StripFilePrefix(name1)
        filePath == IF IsAbsolute(p, name2)
                    THEN (IF p = Win32 THEN Win32Normalize(name2) ELSE PosixNormalize(name2))
                    ELSE Join(p, Dirname(p, editorFilePath), name2)
        checked == IF filePath = editorFilePath THEN <<>>
                   ELSE IF env.exists THEN <<"fs.stat">>
                   ELSE <<"fs.stat", "fs.stat">>
        missing == filePath # editorFilePath /\ ~env.exists /\ ~env.existsWithExt
    IN  IF a.bang THEN <<"workbench.action.files.revert">>
        ELSE IF a.name = NoName THEN
            SplitEditor(a)
            \o (IF a.createFileIfNotExists
                THEN <<"workbench.action.files.newUntitledFile">> \o HidePreviousEditor(split)
                ELSE <<>>)
        ELSE IF name1 = <<>> THEN
            SplitEditor(a)
            \o (IF split THEN <<>> ELSE <<"window.showOpenDialog">> \o OpenDocument(a, split))
        ELSE IF missing /\ ~a.createFileIfNotExists
             THEN SplitEditor(a) \o checked \o <<"logger.error">>
        ELSE SplitEditor(a) \o checked
             \o (IF missing THEN <<"fs.writeFile">> ELSE <<>>)
             \o OpenDocument(a, split)

(***************************************************************************)
(* Inputs: every string over Alphabet of at most MaxLen characters, the    *)
(* named example paths, and the active-document uris a session can have.   *)
(***************************************************************************)
Alphabet == {Slash, Backslash, Colon, Dot, Tilde, "c"}

BoundedStrings == UNION {[1..k -> Alphabet] : k \in 0..MaxLen}

PathHomeDoc == <<Slash, "h", "o", "m", "e", Slash, "u", "s", "e", "r", Slash, "d", "o", "c", Dot, "t", "x", "t">>

PathDriveDoc == <<Slash, "C", Colon, Slash, "U", "s", "e", "r", "s", Slash, "m", "e", Slash, "d", "o", "c", Dot, "t", "x", "t">>

PathUntitled == <<"U", "n", "t", "i", "t", "l", "e", "d", "-", "1">>

InSibling == <<Dot, Dot, Slash, "s", "i", "b", "l", "i", "n", "g", Dot, "t", "x", "t">>

InSub == <<"s", "u", "b", Backslash, "f", Dot, "t", "x", "t">>

InNotes == <<Tilde, Slash, "n", "o", "t", "e", "s", Dot, "t", "x", "t">>

InUncComplete == <<Backslash, Backslash, "h", "o", "s", "t", Backslash, "s", "h", "a", "r", "e", Backslash, "x">>

InUncHost == <<Backslash, Backslash, "h", "o", "s", "t">>

InUncOnlyHost == <<Backslash, Backslash, "o", "n", "l", "y", "h", "o", "s", "t">>

InDriveNoSlash == <<"C", Colon, "f", "o", "o">>

InDrive == <<"C", Colon, Backslash, "U", "s", "e", "r", "s", Backslash, "x">>

InHomeX == <<Slash, "h", "o", "m", "e", Slash, "x">>

InInnerDrive == <<"x", "c", Colon, Backslash, "y">>

InUncShort == <<Backslash, Backslash, "c", Backslash, "c">>

InUncShortDir == <<Backslash, Backslash, "c", Backslash, "c", Backslash>>

InSlashUnc == <<Slash, Slash, "c", Slash, "c">>

ExamplePaths ==
    {InSibling, InSub, InNotes, InUncComplete, InUncHost, InUncOnlyHost,
     InDriveNoSlash, InDrive, InHomeX, InInnerDrive, InUncShort, InUncShortDir,
     InSlashUnc}

Paths == BoundedStrings \cup ExamplePaths

AuthSsh == <<"s", "s", "h">>

AuthShare == <<"h", "o", "s", "t">>

CtxHomeDoc == MkUri(SchemeFile, <<>>, PathHomeDoc)

CtxDriveDoc == MkUri(SchemeFile, <<>>, PathDriveDoc)

CtxUncDoc == MkUri(SchemeFile, AuthShare, <<Slash, "s", Slash, "d">>)

CtxUntitled == MkUri(SchemeUntitled, <<>>, PathUntitled)

CtxUntitledPath == MkUri(SchemeUntitled, <<>>, <<Slash, "c", Colon, Slash, "p">>)

CtxUntitledRemote == MkUri(SchemeUntitled, AuthSsh, <<Slash, "c", Colon, Slash, "p">>)

CtxRemoteDoc == MkUri(SchemeVscodeRemote, AuthSsh, PathHomeDoc)

CtxRemoteDrive == MkUri(SchemeVscodeRemote, AuthSsh, <<Slash, "c", Colon, Slash, "d">>)

CtxOther == MkUri("git", <<>>, <<Slash, "a", Slash, "d">>)

Contexts ==
    {CtxHomeDoc, CtxDriveDoc, CtxUncDoc, CtxUntitled, CtxUntitledPath,
     CtxUntitledRemote, CtxRemoteDoc, CtxRemoteDrive, CtxOther}

Separators == {Slash, Backslash}

(***************************************************************************)
(* The state machine: the session (host platform, remote flag) is fixed at *)
(* start-up; each action is one call of an exported function with inputs   *)
(* of the caller's choosing, args and ret holding the call and its result. *)
(***************************************************************************)
NoArgs == [fn |-> "none"]

Init ==
    /\ hostIsWindows \in BOOLEAN
    /\ isRemoteSession \in BOOLEAN
    /\ pc = "idle"
    /\ args = NoArgs
    /\ ret = Null

CallSeparatePath ==
    /\ pc = "idle"
    /\ \E s \in Paths, sep \in Separators :
          /\ args' = [fn |-> "separatePath", searchPath |-> s, sep |-> sep]
          /\ ret' = separatePath(s, sep)
    /\ pc' = "separatePath"
    /\ UNCHANGED <<hostIsWindows, isRemoteSession>>

CallGetPathDetails ==
    /\ pc = "idle"
    /\ \E s \in Paths, u \in Contexts :
          /\ args' = [fn |-> "getPathDetails", partialPath |-> s, currentUri |-> u,
                      isRemote |-> isRemoteSession]
          /\ ret' = getPathDetails(s, u, isRemoteSession, hostIsWindows)
    /\ pc' = "getPathDetails"
    /\ UNCHANGED <<hostIsWindows, isRemoteSession>>

CallGetFullPath ==
    /\ pc = "idle"
    /\ \E s \in Paths, u \in Contexts :
          /\ args' = [fn |-> "getFullPath", partialPath |-> s, currentUri |-> u]
          /\ ret' = getFullPath(s, u, hostIsWindows)
    /\ pc' = "getFullPath"
    /\ UNCHANGED <<hostIsWindows, isRemoteSession>>

CallResolveUri ==
    /\ pc = "idle"
    /\ \E s \in Paths, sep \in Separators, u \in Contexts :
          /\ args' = [fn |-> "resolveUri", absolutePath |-> s, sep |-> sep,
                      currentUri |-> u, isRemote |-> isRemoteSession]
          /\ ret' = resolveUri(s, sep, u, isRemoteSession, hostIsWindows)
    /\ pc' = "resolveUri"
    /\ UNCHANGED <<hostIsWindows, isRemoteSession>>

CallGetUriPath ==
    /\ pc = "idle"
    /\ \E s \in Paths, sep \in Separators, u \in Contexts :
          /\ args' = [fn |-> "getUriPath", absolutePath |-> s, sep |-> sep, currentUri |-> u]
          /\ ret' = getUriPath(u, s, sep, hostIsWindows)
    /\ pc' = "getUriPath"
    /\ UNCHANGED <<hostIsWindows, isRemoteSession>>

CallCreateFileUri ==
    /\ pc = "idle"
    /\ \E s \in Paths, p \in {Posix, Win32}, u \in Contexts :
          /\ args' = [fn |-> "createFileUri", filePath |-> s, baseUri |-> u, platformPath |-> p]
          /\ ret' = createFileUri(s, u, p)
    /\ pc' = "createFileUri"
    /\ UNCHANGED <<hostIsWindows, isRemoteSession>>

CallResolveDirectoryPath ==
    /\ pc = "idle"
    /\ \E s \in Paths, u \in Contexts :
          /\ args' = [fn |-> "resolveDirectoryPath", baseUri |-> u, partialPath |-> s]
          /\ ret' = resolveDirectoryPath(u, s, hostIsWindows)
    /\ pc' = "resolveDirectoryPath"
    /\ UNCHANGED <<hostIsWindows, isRemoteSession>>

CallJoinPath ==
    /\ pc = "idle"
    /\ \E s \in Paths, u \in Contexts :
          /\ args' = [fn |-> "joinPath", uri |-> u, pathFragment |-> s]
          /\ ret' = joinPath(u, s)
    /\ pc' = "joinPath"
    /\ UNCHANGED <<hostIsWindows, isRemoteSession>>

Return ==
    /\ pc # "idle"
    /\ pc' = "idle"
    /\ args' = NoArgs
    /\ ret' = Null
    /\ UNCHANGED <<hostIsWindows, isRemoteSession>>

Next ==
    \/ CallSeparatePath
    \/ CallGetPathDetails
    \/ CallGetFullPath
    \/ CallResolveUri
    \/ CallGetUriPath
    \/ CallCreateFileUri
    \/ CallResolveDirectoryPath
    \/ CallJoinPath
    \/ Return

Spec == Init /\ [][Next]_vars

(***************************************************************************)
(* Vocabulary of the properties.                                           *)
(***************************************************************************)
\* a Windows drive path: a letter, a colon, a backslash
IsDrivePath(p) ==
    IsLetter(CharAt(p, 0)) /\ CharAt(p, 1) = Colon /\ CharAt(p, 2) = Backslash

\* a complete UNC prefix: two backslashes, a non-empty host, a backslash
IsCompleteUnc(p) ==
    /\ CharAt(p, 0) = Backslash
    /\ CharAt(p, 1) = Backslash
    /\ IndexOf(p, Backslash, 3) # -1

\* something follows the backslash that ends the UNC host
UncHasShare(p) == IndexOf(p, Backslash, 3) + 1 < Len(p)

\* a well-formed absolute path under the convention of separator sep
WellFormed(p, sep) ==
    IF sep = Backslash THEN IsDrivePath(p) \/ IsCompleteUnc(p) ELSE CharAt(p, 0) = Slash

\* p with its drive letter, if any, uppercased
UpperDrive(p) ==
    IF IsLetter(CharAt(p, 0)) /\ CharAt(p, 1) = Colon
    THEN <<ToUpperCase(p[1])>> \o Slice(p, 1)
    ELSE p

\* p with its drive letter uppercased and every backslash written as a slash
ForwardSlashed(p) == ReplaceAll(UpperDrive(p), Backslash, Slash)

\* a local-file handle that carries an authority (a UNC share)
IsUncHandle(u) == u.scheme = SchemeFile /\ u.authority # <<>>

\* a POSIX absolute path that begins neither with two slashes nor with a drive
PlainPosix(p) == CharAt(p, 0) = Slash /\ CharAt(p, 1) # Slash /\ ~hasDriveLetter(p, 1)

Normalize(p, path) == IF p = Win32 THEN Win32Normalize(path) ELSE PosixNormalize(path)

\* the context counts as local for home expansion
IsLocalContext(uri, isRemote) ==
    uri.scheme = SchemeFile \/ (uri.scheme = SchemeUntitled /\ ~isRemote)

(***************************************************************************)
(* C1.                                                                     *)
(***************************************************************************)
\* C1 as stated: for every well-formed absolute path p under either convention
\* and every reference handle, the handle made from p (resolveUri,
\* createFileUri) converts back (uriToFsPath) to p, the drive letter uppercased.
C1_RoundTripExact ==
    /\ pc = "resolveUri" /\ WellFormed(args.absolutePath, args.sep)
          => IsUri(ret) /\ uriToFsPath(ret) = UpperDrive(args.absolutePath)
    /\ pc = "createFileUri" /\ WellFormed(args.filePath, Sep(args.platformPath))
          => IsUri(ret) /\ uriToFsPath(ret) = UpperDrive(args.filePath)

\* C1 amended: the round trip holds up to the normalisation uriToFsPath does.
\* A Windows drive path comes back with its drive letter uppercased and its
\* backslashes written as slashes (resolveUri: up to the direction of the
\* slashes on any host; createFileUri: exactly that form unless the handle is a
\* local-file handle with an authority); a complete UNC path with something
\* after the host comes back in that form when the handle is a local-file
\* handle (resolveUri: on a Windows host); a POSIX path that begins neither
\* with "//" nor with "/<letter>:" comes back unchanged unless the handle is a
\* local-file handle with an authority.
C1_RoundTripNormalised ==
    /\ pc = "resolveUri" /\ args.sep = Backslash /\ IsDrivePath(args.absolutePath)
          => /\ IsUri(ret)
             /\ ForwardSlashed(uriToFsPath(ret)) = ForwardSlashed(args.absolutePath)
             /\ hostIsWindows => uriToFsPath(ret) = ForwardSlashed(args.absolutePath)
    /\ pc = "resolveUri" /\ args.sep = Backslash /\ hostIsWindows
          /\ IsCompleteUnc(args.absolutePath) /\ UncHasShare(args.absolutePath)
          => IsUri(ret) /\ uriToFsPath(ret) = ForwardSlashed(args.absolutePath)
    /\ pc = "resolveUri" /\ args.sep = Slash /\ PlainPosix(args.absolutePath)
          => /\ IsUri(ret)
             /\ ~IsUncHandle(ret) => uriToFsPath(ret) = args.absolutePath
    /\ pc = "createFileUri" /\ args.platformPath = Win32 /\ IsDrivePath(args.filePath)
          => /\ IsUri(ret)
             /\ ~IsUncHandle(ret) => uriToFsPath(ret) = ForwardSlashed(args.filePath)
    /\ pc = "createFileUri" /\ args.platformPath = Win32
          /\ IsCompleteUnc(args.filePath) /\ UncHasShare(args.filePath)
          => /\ IsUri(ret)
             /\ ret.scheme = SchemeFile => uriToFsPath(ret) = ForwardSlashed(args.filePath)
    /\ pc = "createFileUri" /\ args.platformPath = Posix /\ PlainPosix(args.filePath)
          => /\ IsUri(ret)
             /\ ~IsUncHandle(ret) => uriToFsPath(ret) = args.filePath

\* a drive path with a lowercase letter has made the round trip through createFileUri
C1_Witness ==
    /\ pc = "createFileUri"
    /\ args.platformPath = Win32
    /\ args.filePath = <<"c", Colon, Backslash>>
    /\ IsUri(ret)
    /\ uriToFsPath(ret) = <<"C", Colon, Slash>>

(***************************************************************************)
(* C2.                                                                     *)
(***************************************************************************)
\* C2: resolveUri and getUriPath return null for every Windows path that begins
\* neither with a complete UNC prefix nor with a drive letter, a colon and a
\* backslash, and for every POSIX path whose first character is not "/".
C2_RejectsMalformed ==
    pc \in {"resolveUri", "getUriPath"} /\ ~WellFormed(args.absolutePath, args.sep)
        => ret = Null

(***************************************************************************)
(* C3.                                                                     *)
(***************************************************************************)
\* the scheme C3 expects of a POSIX result
UpgradedScheme(uri) == IF uri.scheme = SchemeUntitled THEN SchemeFile ELSE uri.scheme

\* C3 as stated: a successful resolveUri / getUriPath gives the local-file
\* scheme under the Windows convention and, under POSIX, the reference's
\* authority and scheme, an unsaved-buffer scheme always becoming local-file.
C3_AlwaysUpgraded ==
    pc \in {"resolveUri", "getUriPath"} /\ IsUri(ret)
        => IF args.sep = Backslash
           THEN ret.scheme = SchemeFile
           ELSE /\ ret.authority = args.currentUri.authority
                /\ ret.scheme = UpgradedScheme(args.currentUri)

\* C3 amended: as stated, except that resolveUri upgrades an unsaved-buffer
\* scheme to local-file only when the remote flag is false; with the remote
\* flag set the result keeps the unsaved-buffer scheme (getUriPath, which has
\* no remote flag, always upgrades).
C3_UpgradedWhenLocal ==
    /\ pc \in {"resolveUri", "getUriPath"} /\ IsUri(ret) /\ args.sep = Backslash
          => ret.scheme = SchemeFile
    /\ pc \in {"resolveUri", "getUriPath"} /\ IsUri(ret) /\ args.sep = Slash
          => ret.authority = args.currentUri.authority
    /\ pc = "getUriPath" /\ IsUri(ret) /\ args.sep = Slash
          => ret.scheme = UpgradedScheme(args.currentUri)
    /\ pc = "resolveUri" /\ IsUri(ret) /\ args.sep = Slash
          => ret.scheme = IF args.isRemote THEN args.currentUri.scheme
                          ELSE UpgradedScheme(args.currentUri)

\* resolveUri has resolved a POSIX path against an unsaved buffer in a remote session
C3_Witness ==
    /\ pc = "resolveUri"
    /\ args.sep = Slash
    /\ args.isRemote
    /\ args.currentUri = CtxUntitled
    /\ args.absolutePath = InHomeX
    /\ IsUri(ret)
    /\ ret.scheme = SchemeUntitled

(***************************************************************************)
(* C4.                                                                     *)
(***************************************************************************)
\* the call resolve("../sibling.txt") in the context /home/user/doc.txt on a POSIX host
IsSiblingCall ==
    /\ pc \in {"getPathDetails", "getFullPath"}
    /\ ~hostIsWindows
    /\ args.currentUri = CtxHomeDoc
    /\ args.partialPath = InSibling

\* the call resolve("sub\f.txt") in the context C:\Users\me\doc.txt on a Windows host
IsSubCall ==
    /\ pc \in {"getPathDetails", "getFullPath"}
    /\ hostIsWindows
    /\ args.currentUri = CtxDriveDoc
    /\ args.partialPath = InSub

\* C4 as stated: the input's directory part is joined onto the directory that
\* contains the context resource: "../sibling.txt" in /home/user/doc.txt gives
\* fullDirPath "/home" and fullPath "/home/sibling.txt"; "sub\f.txt" in
\* C:\Users\me\doc.txt gives "C:\Users\me\sub" and "C:\Users\me\sub\f.txt".
C4_ExactDirectories ==
    /\ IsSiblingCall
          => /\ ret.fullDirPath = <<Slash, "h", "o", "m", "e">>
             /\ ret.fullPath = <<Slash, "h", "o", "m", "e", Slash, "s", "i", "b", "l", "i", "n", "g", Dot, "t", "x", "t">>
    /\ IsSubCall
          => /\ ret.fullDirPath = <<"C", Colon, Backslash, "U", "s", "e", "r", "s", Backslash, "m", "e", Backslash, "s", "u", "b">>
             /\ ret.fullPath = <<"C", Colon, Backslash, "U", "s", "e", "r", "s", Backslash, "m", "e", Backslash, "s", "u", "b", Backslash, "f", Dot, "t", "x", "t">>

\* C4 amended: as stated, except that fullDirPath keeps the trailing separator
\* of the joined directory parts ("/home/", "c:\Users\me\sub\") and the Windows
\* results carry the drive letter as fsPath reports it, in lowercase
\* ("c:\Users\me\sub\f.txt").
C4_DirectoriesWithSeparator ==
    /\ IsSiblingCall
          => /\ ret.fullDirPath = <<Slash, "h", "o", "m", "e", Slash>>
             /\ ret.fullPath = <<Slash, "h", "o", "m", "e", Slash, "s", "i", "b", "l", "i", "n", "g", Dot, "t", "x", "t">>
             /\ ret.path = Posix
    /\ IsSubCall
          => /\ ret.fullDirPath = <<"c", Colon, Backslash, "U", "s", "e", "r", "s", Backslash, "m", "e", Backslash, "s", "u", "b", Backslash>>
             /\ ret.fullPath = <<"c", Colon, Backslash, "U", "s", "e", "r", "s", Backslash, "m", "e", Backslash, "s", "u", "b", Backslash, "f", Dot, "t", "x", "t">>
             /\ ret.path = Win32

\* getPathDetails has resolved "sub\f.txt" in the context C:\Users\me\doc.txt
\* on a Windows host
C4_Witness ==
    /\ pc = "getPathDetails"
    /\ IsSubCall
    /\ ret.fullPath = <<"c", Colon, Backslash, "U", "s", "e", "r", "s", Backslash, "m", "e", Backslash, "s", "u", "b", Backslash, "f", Dot, "t", "x", "t">>

(***************************************************************************)
(* C5.                                                                     *)
(***************************************************************************)
\* C5 as stated: every result of getPathDetails has fullPath =
\* join(fullDirPath, baseName) and a fullDirPath that is absolute under the
\* detected convention.
C5_AlwaysAbsolute ==
    pc = "getPathDetails"
        => /\ ret.fullPath = Join(ret.path, ret.fullDirPath, ret.baseName)
           /\ IsAbsolute(ret.path, ret.fullDirPath)

\* C5 amended: every result of getPathDetails has fullPath =
\* join(fullDirPath, baseName); fullDirPath is absolute exactly when the input's
\* directory part is absolute or the directory part of the context's own path
\* (fsPath under the Windows convention) is absolute, so for an unsaved buffer
\* with a bare name and a relative input it is relative.
C5_AbsoluteWhenContextIs ==
    pc = "getPathDetails"
        => /\ ret.fullPath = Join(ret.path, ret.fullDirPath, ret.baseName)
           /\ IsAbsolute(ret.path, ret.fullDirPath)
                <=> \/ IsAbsolute(ret.path, ret.dirName)
                    \/ IsAbsolute(ret.path,
                                  CurrentDirectory(args.currentUri, ret.path = Win32,
                                                   hostIsWindows))

\* getPathDetails has resolved a bare name against the unsaved buffer Untitled-1
C5_Witness ==
    /\ pc = "getPathDetails"
    /\ args.currentUri = CtxUntitled
    /\ args.partialPath = <<"c">>
    /\ ret.fullDirPath = <<Dot>>
    /\ ret.fullPath = <<"c">>

(***************************************************************************)
(* C6, C7, C8: convention detection.                                       *)
(***************************************************************************)
\* the convention a finished call detected
Detected == IF pc = "resolveDirectoryPath" THEN ret.platformPath ELSE ret.path

\* the uri a finished call took as its context
ContextOf == IF pc = "resolveDirectoryPath" THEN args.baseUri ELSE args.currentUri

\* a call of a resolver that detects a convention has returned a result
DetectorReturned ==
    \/ pc \in {"getPathDetails", "getFullPath"}
    \/ pc = "resolveDirectoryPath" /\ ret.kind = "resolved"

\* the host path sample of the context: fsPath for getPathDetails and
\* getFullPath, uriToFsPath for resolveDirectoryPath
SampleOf ==
    IF pc = "resolveDirectoryPath"
    THEN uriToFsPath(args.baseUri)
    ELSE FsPath(args.currentUri, hostIsWindows)

\* C6 as stated: for a remote-file context whose host path sample does not
\* start with "/", the detector returns the Windows convention.
C6_RemoteSampleWindows ==
    DetectorReturned /\ ContextOf.scheme = SchemeVscodeRemote /\ CharAt(SampleOf, 0) # Slash
        => Detected = Win32

\* C6 amended: for a remote-file context whose handle path is absolute,
\* resolveDirectoryPath detects the Windows convention when the sample
\* (uriToFsPath of the context) does not start with "/", while getPathDetails
\* and getFullPath detect POSIX for every remote-file context, whatever the
\* sample.
C6_RemoteByEntryPoint ==
    /\ pc = "resolveDirectoryPath" /\ ret.kind = "resolved"
          /\ args.baseUri.scheme = SchemeVscodeRemote /\ CharAt(SampleOf, 0) # Slash
          => ret.platformPath = Win32
    /\ pc \in {"getPathDetails", "getFullPath"} /\ args.currentUri.scheme = SchemeVscodeRemote
          => ret.path = Posix

\* resolveDirectoryPath has detected Windows for the remote context /c:/d
C6_Witness ==
    /\ pc = "resolveDirectoryPath"
    /\ args.baseUri = CtxRemoteDrive
    /\ ret.kind = "resolved"
    /\ CharAt(uriToFsPath(args.baseUri), 0) # Slash
    /\ ret.platformPath = Win32

\* C7: for a context whose scheme is not unsaved-buffer, getPathDetails and
\* getFullPath detect Windows if and only if the scheme is local-file and the
\* first character of the host path sample (fsPath) is not "/"; otherwise POSIX.
C7_SavedContextDetection ==
    pc \in {"getPathDetails", "getFullPath"} /\ args.currentUri.scheme # SchemeUntitled
        => /\ ret.path \in {Win32, Posix}
           /\ ret.path = Win32
                <=> /\ args.currentUri.scheme = SchemeFile
                    /\ CharAt(FsPath(args.currentUri, hostIsWindows), 0) # Slash

\* getPathDetails has detected Windows for the local file C:\Users\me\doc.txt
C7_Witness ==
    /\ pc = "getPathDetails"
    /\ args.currentUri = CtxDriveDoc
    /\ hostIsWindows
    /\ FsPath(args.currentUri, hostIsWindows)[1] = "c"
    /\ ret.path = Win32

\* C8 as stated: for an unsaved-buffer context every resolver that detects a
\* convention (getPathDetails, getFullPath, resolveDirectoryPath) returns
\* Windows if and only if the host is Windows and the session is not remote.
C8_UnsavedEveryEntryPoint ==
    DetectorReturned /\ ContextOf.scheme = SchemeUntitled
        => (Detected = Win32 <=> hostIsWindows /\ ~isRemoteSession)

\* C8 amended: for an unsaved-buffer context getPathDetails returns Windows if
\* and only if the host is Windows and the remote flag is false; getFullPath
\* and resolveDirectoryPath, which read no remote flag, return Windows if and
\* only if the host is Windows.
C8_UnsavedByEntryPoint ==
    /\ pc = "getPathDetails" /\ args.currentUri.scheme = SchemeUntitled
          => (ret.path = Win32 <=> hostIsWindows /\ ~args.isRemote)
    /\ pc = "getPathDetails" /\ args.currentUri.scheme = SchemeUntitled /\ args.isRemote
          => ret.path = Posix
    /\ pc \in {"getFullPath", "resolveDirectoryPath"} /\ DetectorReturned
          /\ ContextOf.scheme = SchemeUntitled
          => (Detected = Win32 <=> hostIsWindows)

\* getPathDetails has detected POSIX for an unsaved buffer of a remote session
\* on a Windows host
C8_Witness ==
    /\ pc = "getPathDetails"
    /\ args.currentUri = CtxUntitled
    /\ hostIsWindows
    /\ args.isRemote
    /\ ret.path = Posix

(***************************************************************************)
(* C9.                                                                     *)
(***************************************************************************)
\* the directory part and base name a finished resolver call returned, joined
SplitOf ==
    IF pc = "resolveDirectoryPath"
    THEN ret.dirname \o ret.basename
    ELSE ret.dirName \o ret.baseName

\* C9 as stated: the resolvers (getPathDetails, resolveDirectoryPath) expand a
\* leading home marker only for a local-file context or an unsaved buffer of a
\* non-remote session; for a remote-file context and for an unsaved buffer of a
\* remote session the marker stays as typed.
C9_ExpandedOnlyWhenLocal ==
    (pc = "getPathDetails" \/ (pc = "resolveDirectoryPath" /\ ret.kind = "resolved"))
        => SplitOf = IF IsLocalContext(ContextOf, isRemoteSession)
                     THEN Untildify(ret.partialPath, hostIsWindows)
                     ELSE ret.partialPath

\* C9 amended: getPathDetails expands a leading home marker exactly when the
\* context is local-file or an unsaved buffer with the remote flag false, and
\* when the marker is followed by a separator fullPath is then the home
\* directory followed by the remainder, normalised, whatever the context's
\* directory; resolveDirectoryPath expands it for every
\* local-file and every unsaved-buffer context, remote session or not, and
\* never for a remote-file context.
C9_ExpandedByEntryPoint ==
    /\ pc = "getPathDetails"
          => /\ SplitOf = IF IsLocalContext(args.currentUri, args.isRemote)
                          THEN Untildify(ret.partialPath, hostIsWindows)
                          ELSE ret.partialPath
             /\ IsLocalContext(args.currentUri, args.isRemote)
                   /\ HasHomeMarker(args.partialPath) /\ Len(args.partialPath) > 1
                   => ret.fullPath =
                         Normalize(ret.path,
                                   HomeDirectory(hostIsWindows) \o Slice(ret.partialPath, 1))
    /\ pc = "resolveDirectoryPath" /\ ret.kind = "resolved"
          => SplitOf = IF args.baseUri.scheme \in {SchemeFile, SchemeUntitled}
                       THEN Untildify(ret.partialPath, hostIsWindows)
                       ELSE ret.partialPath

\* getPathDetails has left "~/notes.txt" unexpanded for a remote-file context
C9_Witness ==
    /\ pc = "getPathDetails"
    /\ args.currentUri = CtxRemoteDoc
    /\ args.partialPath = InNotes
    /\ ret.dirName = <<Tilde, Slash>>

(***************************************************************************)
(* C10.                                                                    *)
(***************************************************************************)
\* searchPath is a + sep + b with the separator at 1-based index k and no
\* separator in b
SplitsAt(k) ==
    /\ args.searchPath[k] = args.sep
    /\ \A j \in (k + 1)..Len(args.searchPath) : args.searchPath[j] # args.sep

\* C10 as stated: for every separator and all a, b where b holds no separator,
\* separatePath(a + sep + b, sep) is (a + sep, b).
C10_SplitsAtLastSeparator ==
    pc = "separatePath"
        => \A k \in 1..Len(args.searchPath) :
              SplitsAt(k)
                 => ret = <<SubSeq(args.searchPath, 1, k),
                            SubSeq(args.searchPath, k + 1, Len(args.searchPath))>>

\* C10 amended: as stated, except when sep is the Windows separator and a is
\* exactly one backslash: a + sep + b is then an incomplete UNC reference and
\* separatePath returns (a + sep + b, "").
C10_SplitsUnlessIncompleteUnc ==
    pc = "separatePath"
        => \A k \in 1..Len(args.searchPath) :
              SplitsAt(k)
                 => IF args.sep = Backslash /\ k = 2 /\ args.searchPath[1] = Backslash
                    THEN ret = <<args.searchPath, <<>>>>
                    ELSE ret = <<SubSeq(args.searchPath, 1, k),
                                 SubSeq(args.searchPath, k + 1, Len(args.searchPath))>>

\* separatePath has split "c\c" at its backslash
C10_Witness ==
    /\ pc = "separatePath"
    /\ args.sep = Backslash
    /\ args.searchPath = <<"c", Backslash, "c">>
    /\ ret = <<<<"c", Backslash>>, <<"c">>>>

(***************************************************************************)
(* C11.                                                                    *)
(***************************************************************************)
\* the split of the general rule: at the last separator, or nothing before
\* the base name if there is none
GeneralSplit(searchPath, sep) ==
    LET Seps == {k \in 1..Len(searchPath) : searchPath[k] = sep}
        last == IF Seps = {} THEN 0 ELSE CHOOSE k \in Seps : \A j \in Seps : j <= k
    IN  <<SubSeq(searchPath, 1, last), SubSeq(searchPath, last + 1, Len(searchPath))>>

\* searchPath begins with two backslashes
BeginsUnc(searchPath) ==
    Len(searchPath) >= 2 /\ searchPath[1] = Backslash /\ searchPath[2] = Backslash

\* a backslash stands at offset 2 or later of searchPath
HasLaterBackslash(searchPath) ==
    \E k \in 3..Len(searchPath) : searchPath[k] = Backslash

NameFile == <<"a", Dot, "t", "x", "t">>

NameDir == <<"b">>

ChildNames == {NameFile, NameDir}

Children == [name : ChildNames, type : FileTypes]

\* the listings of a directory: its children, no name twice, in any order
Listings ==
    {l \in UNION {[1..k -> Children] : k \in 0..Cardinality(ChildNames)} :
        \A i, j \in 1..Len(l) : i # j => l[i].name # l[j].name}

FileSystemErrors == {"FileNotFound", "NoPermissions", "FileNotADirectory", "Unavailable"}

BackendAnswers == {Listed(l) : l \in Listings} \cup {Rejected(e) : e \in FileSystemErrors}

DirectoryPaths == ExamplePaths \cup {<<Slash>>}

CallReadDirectory ==
    /\ pc = "idle"
    /\ \E u \in Contexts, add \in BOOLEAN, p \in {Undefined, Posix, Win32},
          b \in BackendAnswers :
          /\ args' = [fn |-> "readDirectory", directoryUri |-> u, addCurrentAndUp |-> add,
                      platformPath |-> p, backend |-> b]
          /\ ret' = readDirectory(u, add, p, b)
    /\ pc' = "readDirectory"
    /\ UNCHANGED <<hostIsWindows, isRemoteSession>>

CallReadDirectoryOfPath ==
    /\ pc = "idle"
    /\ \E u \in Contexts, s \in DirectoryPaths, sep \in Separators, add \in BOOLEAN,
          b \in BackendAnswers :
          /\ args' = [fn |-> "readDirectoryOfPath", currentUri |-> u, absolutePath |-> s,
                      sep |-> sep, addCurrentAndUp |-> add, backend |-> b]
          /\ ret' = readDirectoryOfPath(u, s, sep, add, b, hostIsWindows)
    /\ pc' = "readDirectoryOfPath"
    /\ UNCHANGED <<hostIsWindows, isRemoteSession>>

NextList ==
    \/ CallReadDirectory
    \/ CallReadDirectoryOfPath
    \/ Return

SpecList == Init /\ [][NextList]_vars

(***************************************************************************)
(* C12, C13: readDirectory.                                                *)
(***************************************************************************)
\* a call of either readDirectory has returned
ListerReturned == pc \in {"readDirectory", "readDirectoryOfPath"}

\* the separator of the convention the finished call lists under
ListerSep ==
    IF pc = "readDirectoryOfPath" THEN args.sep
    ELSE IF args.platformPath = Undefined THEN Sep(getPlatformPath(args.directoryUri))
    ELSE Sep(args.platformPath)

\* the handle the finished call has read, if it had one to read
ListerHasHandle ==
    pc = "readDirectoryOfPath"
        => IsUri(getUriPath(args.currentUri, args.absolutePath, args.sep, hostIsWindows))

\* the listing succeeded: there was a handle and the backend answered the read
ListingSucceeded == ListerReturned /\ ListerHasHandle /\ args.backend.kind = "listed"

\* the name of the i-th entry returned
EntryName(i) == IF pc = "readDirectoryOfPath" THEN ret[i][1] ELSE ret[i]

\* C12: on a successful listing readDirectory returns one entry per child in
\* the backend's order, the name suffixed with the convention's separator if
\* and only if the child's type is Directory; with addCurrentAndUp the entries
\* "." + sep and ".." + sep follow as the last two, in that order, and without
\* it nothing follows the children.
C12_ListingInOrder ==
    ListingSucceeded
        => LET children == args.backend.entries
               n == Len(children)
           IN  /\ Len(ret) = n + (IF args.addCurrentAndUp THEN 2 ELSE 0)
               /\ \A i \in 1..n :
                     EntryName(i) = IF children[i].type = "Directory"
                                    THEN children[i].name \o <<ListerSep>>
                                    ELSE children[i].name
               /\ args.addCurrentAndUp
                     => /\ EntryName(n + 1) = <<Dot, ListerSep>>
                        /\ EntryName(n + 2) = <<Dot, Dot, ListerSep>>

\* readDirectory has listed the file a.txt and the directory b, with pseudo-entries
C12_Witness ==
    /\ pc = "readDirectory"
    /\ args.platformPath = Posix
    /\ args.addCurrentAndUp
    /\ args.backend = Listed(<<[name |-> NameFile, type |-> "File"],
                               [name |-> NameDir, type |-> "Directory"]>>)
    /\ ret = <<NameFile, NameDir \o <<Slash>>, <<Dot, Slash>>, <<Dot, Dot, Slash>>>>

\* C13: readDirectory returns the empty sequence, without pseudo-entries even
\* when addCurrentAndUp is set, whenever the listing cannot be performed: the
\* backend rejects the read, whatever the error, or the path yields no handle
\* to read, as an incomplete UNC directory ("\\host") does.
C13_EmptyOnFailure ==
    /\ ListerReturned /\ ~ListingSucceeded => ret = <<>>
    /\ pc = "readDirectoryOfPath" /\ args.sep = Backslash /\ BeginsUnc(args.absolutePath)
          /\ ~HasLaterBackslash(args.absolutePath)
          => ret = <<>>

\* readDirectory was asked for pseudo-entries and the backend has rejected the read
C13_Witness ==
    /\ pc = "readDirectory"
    /\ args.addCurrentAndUp
    /\ args.backend = Rejected("NoPermissions")
    /\ ret = <<>>

(***************************************************************************)
(* C14.                                                                    *)
(***************************************************************************)
\* C14: every handle createFileUri produces, for every path and either
\* convention, has the authority of the reference handle and the reference's
\* scheme (unsaved-buffer upgraded to local-file), also when the reference is
\* a remote-file handle and the path begins with two slashes.
C14_KeepsSchemeAndAuthority ==
    pc = "createFileUri" /\ IsUri(ret)
        => /\ ret.authority = args.baseUri.authority
           /\ ret.scheme = UpgradedScheme(args.baseUri)

(***************************************************************************)
(* The file command: the runs of FileCommand.execute, for the arguments a  *)
(* command line can give it, the active document and the answers of the    *)
(* two existence checks.                                                   *)
(***************************************************************************)
NameRelative == <<"f">>

NameAbsolute == <<Slash, "x">>

NameOfDocument == <<"d", "o", "c", Dot, "t", "x", "t">>

NameWithPrefix == FilePrefix \o <<Slash, "x">>

CommandNames ==
    {NoName, <<>>, NameRelative, NameAbsolute, NameOfDocument, NameWithPrefix, InNotes}

Positions == {Undefined, NewWindowVerticalSplit, NewWindowHorizontalSplit}

LineNumbers == {0, 1}

CallExecute ==
    /\ pc = "idle"
    /\ \E name \in CommandNames, bang \in BOOLEAN, position \in Positions,
          lineNumber \in LineNumbers, create \in BOOLEAN, u \in Contexts,
          exists \in BOOLEAN, existsWithExt \in BOOLEAN :
          LET a == [fn |-> "execute", name |-> name, bang |-> bang, position |-> position,
                    lineNumber |-> lineNumber, createFileIfNotExists |-> create,
                    editorFileUri |-> u, exists |-> exists,
                    existsWithExt |-> existsWithExt]
          IN  /\ args' = a
              /\ ret' = execute(a, u, [exists |-> exists, existsWithExt |-> existsWithExt],
                                 hostIsWindows)
    /\ pc' = "execute"
    /\ UNCHANGED <<hostIsWindows, isRemoteSession>>

NextFile ==
    \/ CallExecute
    \/ Return

SpecFile == Init /\ [][NextFile]_vars

(***************************************************************************)
(* C15.                                                                    *)
(***************************************************************************)
\* what changes the state of the editor or of the storage
MutatingCommands ==
    {"workbench.action.files.revert", "workbench.action.splitEditorRight",
     "workbench.action.splitEditorDown", "workbench.action.files.newUntitledFile",
     "workbench.action.previousEditor", "workbench.action.closeActiveEditor",
     "fs.writeFile", "workspace.openTextDocument", "window.showTextDocument"}

\* the finished run made both existence checks, both failed, and the command
\* was not to create the file
AbortedForMissingFile ==
    /\ pc = "execute"
    /\ Cardinality({i \in 1..Len(ret) : ret[i] = "fs.stat"}) = 2
    /\ ~args.exists
    /\ ~args.existsWithExt
    /\ ~args.createFileIfNotExists

\* C15: a run of execute that aborts because the named file does not exist,
\* createFileIfNotExists not being set, has logged the error and has performed
\* no action that changes the editor's state: no split, no file creation, no
\* document opened, no editor closed; for every command, the split ones too.
C15_AbortWithoutMutation ==
    AbortedForMissingFile
        => /\ \E i \in 1..Len(ret) : ret[i] = "logger.error"
           /\ \A i \in 1..Len(ret) : ret[i] \notin MutatingCommands

(***************************************************************************)
(* The steps of a resolution.  resolveDirectoryPath, and getPathDetails    *)
(* followed by resolveUri on the full path, run statement by statement:    *)
(* pc is the statement reached, ret the local variables of the run and the *)
(* steps done so far: "detect" (the convention is chosen), "split"         *)
(* (separatePath), "join" (platformPath.join) and "translate" (a handle is *)
(* made from a path string).                                               *)
(***************************************************************************)
StepPaths == ExamplePaths \cup {<<>>, <<"c">>, <<Slash>>, <<Tilde>>}

EmptyFrame ==
    [kind |-> "frame", steps |-> <<>>, platformPath |-> Undefined,
     partialPath |-> <<>>, normalizedPartialPath |-> <<>>,
     dirName |-> <<>>, baseName |-> <<>>, currentDirectory |-> <<>>,
     directoryPath |-> <<>>, directoryUri |-> Null,
     filePath |-> <<>>, fileUri |-> Null]

StartResolveDirectoryPath ==
    /\ pc = "idle"
    /\ \E s \in StepPaths, u \in Contexts :
          /\ args' = [fn |-> "resolveDirectoryPath", baseUri |-> u, partialPath |-> s]
          /\ ret' = [EmptyFrame EXCEPT !.partialPath = s]
    /\ pc' = "resolveDirectoryPath:1"
    /\ UNCHANGED <<hostIsWindows, isRemoteSession>>

\* 1. Get the platform path
ResolveDirectoryPath_PlatformPath ==
    /\ pc = "resolveDirectoryPath:1"
    /\ ret' = [ret EXCEPT
                 !.platformPath = resolveDirectoryPath_platformPath(args.baseUri, hostIsWindows),
                 !.steps = Append(@, "detect")]
    /\ pc' = "resolveDirectoryPath:2"
    /\ UNCHANGED <<hostIsWindows, isRemoteSession, args>>

\* 2. Normalized for display if it is Windows; 3. Untildify if necessary
ResolveDirectoryPath_Normalize ==
    /\ pc = "resolveDirectoryPath:2"
    /\ LET normalized == IF Sep(ret.platformPath) = Backslash
                         THEN ReplaceAll(ret.partialPath, Slash, Backslash)
                         ELSE ret.partialPath
           expanded == IF args.baseUri.scheme \in {SchemeFile, SchemeUntitled}
                       THEN Untildify(normalized, hostIsWindows)
                       ELSE normalized
       IN  ret' = [ret EXCEPT !.normalizedPartialPath = normalized,
                              !.partialPath = expanded]
    /\ pc' = "resolveDirectoryPath:4"
    /\ UNCHANGED <<hostIsWindows, isRemoteSession, args>>

\* 4. Get the directory path: separatePath
ResolveDirectoryPath_Separate ==
    /\ pc = "resolveDirectoryPath:4"
    /\ LET parts == separatePath(ret.partialPath, Sep(ret.platformPath))
       IN  /\ ret' = [ret EXCEPT !.dirName = parts[1],
                                 !.baseName = parts[2],
                                 !.directoryPath = parts[1],
                                 !.steps = Append(@, "split")]
           /\ pc' = IF resolveDirectoryPath_joinsDirectory(args.baseUri, parts[1],
                                                           ret.platformPath)
                    THEN "resolveDirectoryPath:4:join"
                    ELSE "resolveDirectoryPath:4:uri"
    /\ UNCHANGED <<hostIsWindows, isRemoteSession, args>>

\* 4. partialPath = platformPath.join(uriToFsPath(baseUri), dirName)
ResolveDirectoryPath_JoinDirectory ==
    /\ pc = "resolveDirectoryPath:4:join"
    /\ ret' = [ret EXCEPT
                 !.directoryPath = Join(ret.platformPath, uriToFsPath(args.baseUri),
                                        ret.dirName),
                 !.steps = Append(@, "join")]
    /\ pc' = "resolveDirectoryPath:4:uri"
    /\ UNCHANGED <<hostIsWindows, isRemoteSession, args>>

\* 4. directoryUri = createFileUri(..., baseUri, platformPath)
ResolveDirectoryPath_DirectoryUri ==
    /\ pc = "resolveDirectoryPath:4:uri"
    /\ LET uri == createFileUri(ret.directoryPath, args.baseUri, ret.platformPath)
       IN  /\ ret' = [ret EXCEPT !.directoryUri = uri, !.steps = Append(@, "translate")]
           /\ pc' = IF IsUri(uri) THEN "resolveDirectoryPath:5" ELSE "thrown"
    /\ UNCHANGED <<hostIsWindows, isRemoteSession, args>>

\* 5. filePath = platformPath.join(uriToFsPath(directoryUri), baseName)
ResolveDirectoryPath_JoinFile ==
    /\ pc = "resolveDirectoryPath:5"
    /\ ret' = [ret EXCEPT
                 !.filePath = Join(ret.platformPath, uriToFsPath(ret.directoryUri),
                                   ret.baseName),
                 !.steps = Append(@, "join")]
    /\ pc' = "resolveDirectoryPath:5:uri"
    /\ UNCHANGED <<hostIsWindows, isRemoteSession, args>>

\* 5. fileUri = createFileUri(filePath, baseUri, platformPath)
ResolveDirectoryPath_FileUri ==
    /\ pc = "resolveDirectoryPath:5:uri"
    /\ LET uri == createFileUri(ret.filePath, args.baseUri, ret.platformPath)
       IN  /\ ret' = [ret EXCEPT !.fileUri = uri, !.steps = Append(@, "translate")]
           /\ pc' = IF IsUri(uri) THEN "resolveDirectoryPath:done" ELSE "thrown"
    /\ UNCHANGED <<hostIsWindows, isRemoteSession, args>>

StartGetPathDetails ==
    /\ pc = "idle"
    /\ \E s \in StepPaths, u \in Contexts :
          /\ args' = [fn |-> "getPathDetails", partialPath |-> s, currentUri |-> u,
                      isRemote |-> isRemoteSession]
          /\ ret' = [EmptyFrame EXCEPT !.partialPath = s]
    /\ pc' = "getPathDetails:1"
    /\ UNCHANGED <<hostIsWindows, isRemoteSession>>

\* isWindows and p
GetPathDetails_IsWindows ==
    /\ pc = "getPathDetails:1"
    /\ LET isWindows == getPathDetails_isWindows(args.currentUri, args.isRemote, hostIsWindows)
       IN  ret' = [ret EXCEPT !.platformPath = IF isWindows THEN Win32 ELSE Posix,
                              !.steps = Append(@, "detect")]
    /\ pc' = "getPathDetails:2"
    /\ UNCHANGED <<hostIsWindows, isRemoteSession, args>>

\* normalize / to \ on windows, then untildify
GetPathDetails_Normalize ==
    /\ pc = "getPathDetails:2"
    /\ LET updated == IF ret.platformPath = Win32
                      THEN ReplaceAll(ret.partialPath, Slash, Backslash)
                      ELSE ret.partialPath
       IN  ret' = [ret EXCEPT
                     !.normalizedPartialPath = updated,
                     !.partialPath = getPathDetails_untildify(updated, args.currentUri,
                                                              args.isRemote, hostIsWindows)]
    /\ pc' = "getPathDetails:3"
    /\ UNCHANGED <<hostIsWindows, isRemoteSession, args>>

\* [dirName, baseName] = separatePath(partialPath, p.sep)
GetPathDetails_Separate ==
    /\ pc = "getPathDetails:3"
    /\ LET parts == separatePath(ret.partialPath, Sep(ret.platformPath))
       IN  /\ ret' = [ret EXCEPT !.dirName = parts[1],
                                 !.baseName = parts[2],
                                 !.directoryPath = parts[1],
                                 !.steps = Append(@, "split")]
           /\ pc' = IF IsAbsolute(ret.platformPath, parts[1])
                    THEN "getPathDetails:5"
                    ELSE "getPathDetails:4"
    /\ UNCHANGED <<hostIsWindows, isRemoteSession, args>>

\* separatePath(isWindows ? currentUri.fsPath : currentUri.path, p.sep)[0]
GetPathDetails_CurrentDirectory ==
    /\ pc = "getPathDetails:4"
    /\ ret' = [ret EXCEPT
                 !.currentDirectory = CurrentDirectory(args.currentUri,
                                                       ret.platformPath = Win32,
                                                       hostIsWindows),
                 !.steps = Append(@, "split")]
    /\ pc' = "getPathDetails:4:join"
    /\ UNCHANGED <<hostIsWindows, isRemoteSession, args>>

\* fullDirPath = p.join(..., dirName)
GetPathDetails_JoinDirectory ==
    /\ pc = "getPathDetails:4:join"
    /\ ret' = [ret EXCEPT
                 !.directoryPath = Join(ret.platformPath, ret.currentDirectory, ret.dirName),
                 !.steps = Append(@, "join")]
    /\ pc' = "getPathDetails:5"
    /\ UNCHANGED <<hostIsWindows, isRemoteSession, args>>

\* fullPath = p.join(fullDirPath, baseName)
GetPathDetails_JoinFile ==
    /\ pc = "getPathDetails:5"
    /\ ret' = [ret EXCEPT
                 !.filePath = Join(ret.platformPath, ret.directoryPath, ret.baseName),
                 !.steps = Append(@, "join")]
    /\ pc' = "getPathDetails:done"
    /\ UNCHANGED <<hostIsWindows, isRemoteSession, args>>

\* resolveUri(fullPath, p.sep, currentUri, isRemote): the tests of the path
ResolveUri_Validate ==
    /\ pc = "getPathDetails:done"
    /\ pc' = IF resolveUri(ret.filePath, Sep(ret.platformPath), args.currentUri,
                           args.isRemote, hostIsWindows) = Null
             THEN "resolveUri:done"
             ELSE "resolveUri:uri"
    /\ UNCHANGED <<hostIsWindows, isRemoteSession, args, ret>>

\* resolveUri: Uri.file(absolutePath) or currentUri.with(...)
ResolveUri_Uri ==
    /\ pc = "resolveUri:uri"
    /\ LET uri == resolveUri(ret.filePath, Sep(ret.platformPath), args.currentUri,
                             args.isRemote, hostIsWindows)
       IN  /\ ret' = [ret EXCEPT !.fileUri = uri, !.steps = Append(@, "translate")]
           /\ pc' = IF IsUri(uri) THEN "resolveUri:done" ELSE "thrown"
    /\ UNCHANGED <<hostIsWindows, isRemoteSession, args>>

\* the run is over: it has returned or thrown
StepsReturn ==
    /\ pc \in {"resolveDirectoryPath:done", "resolveUri:done", "thrown"}
    /\ pc' = "idle"
    /\ args' = NoArgs
    /\ ret' = Null
    /\ UNCHANGED <<hostIsWindows, isRemoteSession>>

NextSteps ==
    \/ StartResolveDirectoryPath
    \/ ResolveDirectoryPath_PlatformPath
    \/ ResolveDirectoryPath_Normalize
    \/ ResolveDirectoryPath_Separate
    \/ ResolveDirectoryPath_JoinDirectory
    \/ ResolveDirectoryPath_DirectoryUri
    \/ ResolveDirectoryPath_JoinFile
    \/ ResolveDirectoryPath_FileUri
    \/ StartGetPathDetails
    \/ GetPathDetails_IsWindows
    \/ GetPathDetails_Normalize
    \/ GetPathDetails_Separate
    \/ GetPathDetails_CurrentDirectory
    \/ GetPathDetails_JoinDirectory
    \/ GetPathDetails_JoinFile
    \/ ResolveUri_Validate
    \/ ResolveUri_Uri
    \/ StepsReturn

SpecSteps == Init /\ [][NextSteps]_vars

(***************************************************************************)
(* C16.                                                                    *)
(***************************************************************************)
\* a resolution is running or has just ended
InRun == pc # "idle"

StepRank(step) ==
    CASE step = "detect" -> 1
      [] step = "split" -> 2
      [] step = "join" -> 3
      [] step = "translate" -> 4

\* no step of the sequence comes after a step of a later kind
StrictlyOrdered(steps) ==
    \A i, j \in 1..Len(steps) : i < j => StepRank(steps[i]) <= StepRank(steps[j])

\* the steps of the sequence that are of the given kinds
StepsAmong(steps, kinds) == SelectSeq(steps, LAMBDA s : s \in kinds)

\* s is an initial part of t
IsPrefix(s, t) == Len(s) <= Len(t) /\ SubSeq(t, 1, Len(s)) = s

\* the steps of a complete resolveDirectoryPath
DirectorySteps(joined) ==
    <<"detect", "split">> \o (IF joined THEN <<"join">> ELSE <<>>)
    \o <<"translate", "join", "translate">>

\* C16 as stated: within one resolution, by resolveDirectoryPath or by
\* getPathDetails followed by resolveUri, detection completes before any
\* split, every split before any join and every join before any translation
\* of a path to a handle.
C16_StrictlyOrdered == InRun => StrictlyOrdered(ret.steps)

\* C16 amended: getPathDetails followed by resolveUri is strictly ordered:
\* detection, every split, every join, then the translation.  In
\* resolveDirectoryPath detection completes before the split and the split
\* before any join, but the handle of the directory is made before the file
\* path is joined: a complete run does detection, split, a join of the
\* directory (only when the directory part is relative and the base is a
\* local-file or remote-file handle), translation of the directory, join of
\* the file path, translation of the file, and a run in progress or ended by
\* an exception has done an initial part of that.
C16_OrderedByEntryPoint ==
    /\ InRun /\ args.fn = "getPathDetails" => StrictlyOrdered(ret.steps)
    /\ InRun /\ args.fn = "resolveDirectoryPath"
          => /\ StrictlyOrdered(StepsAmong(ret.steps, {"detect", "split", "join"}))
             /\ \/ IsPrefix(ret.steps, DirectorySteps(TRUE))
                \/ IsPrefix(ret.steps, DirectorySteps(FALSE))
    /\ pc = "resolveDirectoryPath:done"
          => ret.steps = DirectorySteps(/\ args.baseUri.scheme \in {SchemeFile, SchemeVscodeRemote}
                                        /\ ~IsAbsolute(ret.platformPath, ret.dirName))

\* resolveDirectoryPath has resolved "../sibling.txt" against /home/user/doc.txt:
\* the directory's handle was made before the file path was joined
C16_Witness ==
    /\ pc = "resolveDirectoryPath:done"
    /\ args.baseUri = CtxHomeDoc
    /\ args.partialPath = InSibling
    /\ ret.steps = <<"detect", "split", "join", "translate", "join", "translate">>

(***************************************************************************)
(* C17.                                                                    *)
(***************************************************************************)
\* the path of the handle is not empty and begins with "/"
Rooted(uri) == Len(uri.path) > 0 /\ uri.path[1] = Slash

\* what C17 requires of a handle
PathInvariant(uri) ==
    /\ Len(uri.path) > 0
    /\ uri.scheme \in {SchemeFile, SchemeVscodeRemote} => uri.path[1] = Slash

\* the scheme is local-file, unsaved-buffer or remote-file
KnownScheme(uri) == uri.scheme \in {SchemeFile, SchemeUntitled, SchemeVscodeRemote}

\* C17 as stated: every handle createFileUri makes for resolveDirectoryPath
\* and joinPath, for every partial path, has a non-empty path, and one that
\* begins with "/" when the scheme is local-file or remote-file.
C17_PathNeverEmpty ==
    /\ pc = "resolveDirectoryPath" /\ ret.kind = "resolved"
          => PathInvariant(ret.directoryUri) /\ PathInvariant(ret.fileUri)
    /\ pc = "joinPath" /\ IsUri(ret) => PathInvariant(ret)

\* C17 amended: the file handle of resolveDirectoryPath and every handle of
\* joinPath have a non-empty path that begins with "/", and so has the
\* directory handle of resolveDirectoryPath when the base is a local-file,
\* unsaved-buffer or remote-file handle (for an unsaved buffer and a bare file
\* name it is "/").  For a base of any other scheme the directory handle has
\* the empty path exactly when the partial path has no directory part, and a
\* path that begins with "/" otherwise.
C17_PathRooted ==
    /\ pc = "resolveDirectoryPath" /\ ret.kind = "resolved"
          => /\ Rooted(ret.fileUri)
             /\ KnownScheme(args.baseUri) => Rooted(ret.directoryUri)
             /\ ~KnownScheme(args.baseUri)
                   => IF ret.dirname = <<>>
                      THEN ret.directoryUri.path = <<>>
                      ELSE Rooted(ret.directoryUri)
    /\ pc = "joinPath" /\ IsUri(ret) => Rooted(ret)

\* resolveDirectoryPath has resolved the bare file name "c" for an unsaved buffer
C17_Witness ==
    /\ pc = "resolveDirectoryPath"
    /\ args.baseUri = CtxUntitled
    /\ args.partialPath = <<"c">>
    /\ ret.kind = "resolved"
    /\ ret.directoryUri.path = <<Slash>>
    /\ ret.fileUri.path = <<Slash, "c">>

====
